---- MODULE Spec2Model ----
(***************************************************************************)
(* Model of app.py: the Streamlit button handler that stages the uploaded  *)
(* images and audio in a temporary directory, and                          *)
(* create_video_from_images, which lays the images out over the audio      *)
(* track (exposure + dissolve clips), concatenates them, applies the       *)
(* fades, attaches the audio and encodes the file.                         *)
(*                                                                         *)
(* Times are exact rationals [num, den] (seconds); the source uses floats, *)
(* whose rounding error is below the tolerance the layout is stated with.  *)
(* A file name is modelled by its rank in lexicographic order (an          *)
(* integer), so that list.sort() on the paths of one directory is the      *)
(* numeric order of the ranks.  The bytes of the k-th uploaded image are   *)
(* identified by k.                                                        *)
(***************************************************************************)
EXTENDS Integers, Sequences, FiniteSets, TLC

\* ---------------------------------------------------------------- bounds
MaxImages == 3          \* most images uploaded in one request
NumNames == 2           \* distinct image file names available to the user
MaxAudioDuration == 5   \* longest audio track, seconds
MaxEffect == 2          \* largest transition / fade duration, seconds

\* Image counts over which the planner's outcome is compared: wide enough
\* that a failure threshold, when there is one, lies inside the range.
PlannerRange == MaxAudioDuration + 2

\* ------------------------------------------------------ program constants
DefaultTransition == 1  \* transition_duration=1
DefaultFadeIn == 1      \* fade_in_duration=1
DefaultFadeOut == 1     \* fade_out_duration=1

ImageNames == 1..NumNames
\* The audio uploader accepts mp3/wav only and the image uploader png/jpg/jpeg
\* only, so the audio file's name differs from every image's name.
AudioName == 0
OutputName == "output_uuid.mp4"
None == "None"

\* -------------------------------------------------------------- rationals
RECURSIVE GCD(_, _)
GCD(a, b) == IF b = 0 THEN a ELSE GCD(b, a % b)

Abs(x) == IF x < 0 THEN -x ELSE x

\* n/d in lowest terms, d > 0
Rat(n, d) ==
    LET g == GCD(Abs(n), d)
    IN  [num |-> n \div g, den |-> d \div g]

Zero == Rat(0, 1)
RInt(k) == Rat(k, 1)
RAdd(a, b) == Rat(a.num * b.den + b.num * a.den, a.den * b.den)
RLe(a, b) == a.num * b.den <= b.num * a.den
RLt(a, b) == a.num * b.den < b.num * a.den

RECURSIVE RSum(_)
RSum(s) == IF s = <<>> THEN Zero ELSE RAdd(Head(s), RSum(Tail(s)))

\* ------------------------------------------------------------------ state
VARIABLES
    pc,                     \* position of the script / function
    uploaded_images,        \* st.file_uploader(..., accept_multiple_files=True)
    uploaded_audio,         \* st.file_uploader(...): <<>> (None) or <<file>>
    tmpdir,                 \* the TemporaryDirectory of the request
    image_paths,            \* staged image paths (file names inside tmpdir)
    audio_path,             \* staged audio path
    transition_duration,    \* parameters of create_video_from_images
    fade_in_duration,
    fade_out_duration,
    audio_clip,             \* <<>> or <<the AudioFileClip>>; the source has no
                            \* close() call, so no action ever closes it
    total_audio_duration,
    num_images,
    single_image_duration,
    i,                      \* loop index of enumerate(image_paths), 0-based
    clips,
    final_video_clip,       \* <<>> or <<the clip>>
    tempdir_files,          \* files of tempfile.gettempdir() written by the request
    video_path,             \* value returned by create_video_from_images
    outcome,                \* which st.error / st.success message was reported
    error_message,          \* the exception reported by the except clause
    backend_calls,          \* moviepy calls made so far, in order
    shown                   \* st.video + st.download_button were rendered

vars == <<pc, uploaded_images, uploaded_audio, tmpdir, image_paths, audio_path,
          transition_duration, fade_in_duration, fade_out_duration, audio_clip,
          total_audio_duration, num_images, single_image_duration, i, clips,
          final_video_clip, tempdir_files, video_path, outcome, error_message,
          backend_calls, shown>>

handler_vars == <<uploaded_images, uploaded_audio, tmpdir, image_paths, audio_path,
                  shown>>
param_vars == <<transition_duration, fade_in_duration, fade_out_duration>>

\* --------------------------------------------------------------- planning
\* Mutant: the sign of the image count is flipped.
TotalTransitionTime_SignFlipped(n, t) == (1 - n) * t

\* total_transition_time = (num_images - 1) * transition_duration
TotalTransitionTime(n, t) == (n - 1) * t

\* effective_video_duration = total_audio_duration - fade_in - fade_out
EffectiveVideoDuration(a, fi, fo) == a - fi - fo

\* Mutant: the transition time is not taken out of the budget.
SingleImageDuration_NoTransition(n, a, t, fi, fo) ==
    Rat(EffectiveVideoDuration(a, fi, fo), n)

\* single_image_duration = (effective - total_transition_time) / num_images
SingleImageDuration(n, a, t, fi, fo) ==
    Rat(EffectiveVideoDuration(a, fi, fo) - TotalTransitionTime(n, t), n)

\* Mutant: the first check is strict (< 0 instead of <= 0).
PlanOutcome_StrictCheck(n, a, t, fi, fo) ==
    IF EffectiveVideoDuration(a, fi, fo) < 0 THEN "AudioTooShort"
    ELSE IF RLe(SingleImageDuration(n, a, t, fi, fo), Zero) THEN "TooManyImages"
    ELSE "ok"

\* The two checks, in the order of the source.
PlanOutcome(n, a, t, fi, fo) ==
    IF EffectiveVideoDuration(a, fi, fo) <= 0 THEN "AudioTooShort"
    ELSE IF RLe(SingleImageDuration(n, a, t, fi, fo), Zero) THEN "TooManyImages"
    ELSE "ok"

\* Mutant: the `return None` after the second check is missing.
ReturnsEarly_MissingReturn(o) == o = "AudioTooShort"

\* `return None` follows each st.error of the planning checks.
ReturnsEarly(o) == o # "ok"

\* Mutant: the exception is not caught and ends the script.
OnException_Escapes(e) ==
    [pc |-> "crashed", outcome |-> "none", error_message |-> e]

\* The except clause: the exception is reported and None is returned.
OnException(e) ==
    [pc |-> "returned", outcome |-> "RenderFailed", error_message |-> e]


\* ---------------------------------------------------------------- staging
\* with open(path, "wb") as f: f.write(...): creates or overwrites the file
WriteFile(files, name, content) ==
    [f \in DOMAIN files \cup {name} |-> IF f = name THEN content ELSE files[f]]

\* for uploaded_file in uploaded_images: write it, append its path
RECURSIVE StageImages(_, _, _)
StageImages(files, paths, rest) ==
    IF rest = <<>> THEN [files |-> files, paths |-> paths]
    ELSE StageImages(WriteFile(files, Head(rest).name,
                               [kind |-> "image", data |-> Head(rest).data]),
                     Append(paths, Head(rest).name),
                     Tail(rest))

\* image_paths.sort()
RECURSIVE Insert(_, _)
Insert(x, s) ==
    IF s = <<>> THEN <<x>>
    ELSE IF x < Head(s) THEN <<x>> \o s
    ELSE <<Head(s)>> \o Insert(x, Tail(s))

RECURSIVE Sort(_)
Sort(s) == IF s = <<>> THEN <<>> ELSE Insert(Head(s), Sort(Tail(s)))

\* ------------------------------------------------------------- the clips
\* mp.ImageClip(path, ...): the frame is the content of the file at path
ImageClip(files, path, kind, start, duration) ==
    [kind |-> kind, path |-> path, image |-> files[path].data,
     start |-> start, duration |-> duration]

\* Mutant: the guard lets the last image look for a next one.
HasNext_OffByOne(k, n) == k <= n - 1

\* if i < num_images - 1
HasNext(k, n) == k < n - 1

\* Mutant: set_start is missing, the next image fades in from the clip's start.
DissolveClip_NoSetStart(image_clip, next_path, files, sid, t) ==
    [duration |-> RAdd(sid, RInt(t)),
     layers |-> <<image_clip, ImageClip(files, next_path, "transition", Zero, RInt(t))>>]

\* CompositeVideoClip([image_clip,
\*     next_clip.set_start(sid).set_duration(t).crossfadein(t)]).set_duration(sid + t)
DissolveClip(image_clip, next_path, files, sid, t) ==
    [duration |-> RAdd(sid, RInt(t)),
     layers |-> <<image_clip, ImageClip(files, next_path, "transition", sid, RInt(t))>>]

\* clips.append(image_clip): the last image is held alone
HoldClip(image_clip) ==
    [duration |-> image_clip.duration, layers |-> <<image_clip>>]

ShiftLayers(layers, t0) ==
    [k \in 1..Len(layers) |-> [layers[k] EXCEPT !.start = RAdd(t0, layers[k].start)]]

\* concatenate_videoclips(clips, method="compose"): each clip starts where
\* the previous one ends
RECURSIVE PlaceClips(_, _)
PlaceClips(cs, t0) ==
    IF cs = <<>> THEN <<>>
    ELSE ShiftLayers(Head(cs).layers, t0)
         \o PlaceClips(Tail(cs), RAdd(t0, Head(cs).duration))

ClipDurations(cs) == [k \in 1..Len(cs) |-> cs[k].duration]

ConcatenateVideoclips(cs) ==
    [duration |-> RSum(ClipDurations(cs)),
     segments |-> PlaceClips(cs, Zero),
     fadein |-> 0, fadeout |-> 0, audio |-> <<>>]

\* clip.fadein(d) / clip.fadeout(d): an opacity ramp inside the clip; the
\* clip's duration is unchanged
FadeIn(clip, d) == [clip EXCEPT !.fadein = d]
FadeOut(clip, d) == [clip EXCEPT !.fadeout = d]

\* clip.set_audio(audio_clip): attaches the track; the clip's duration is unchanged
SetAudio(clip, a) == [clip EXCEPT !.audio = a]

\* ------------------------------------------------------------------- Init
Init ==
    /\ pc = "idle"
    /\ uploaded_images = <<>>
    /\ uploaded_audio = <<>>
    /\ tmpdir = [state |-> "absent", files |-> <<>>]
    /\ image_paths = <<>>
    /\ audio_path = None
    /\ transition_duration = DefaultTransition
    /\ fade_in_duration = DefaultFadeIn
    /\ fade_out_duration = DefaultFadeOut
    /\ audio_clip = <<>>
    /\ total_audio_duration = 0
    /\ num_images = 0
    /\ single_image_duration = Zero
    /\ i = 0
    /\ clips = <<>>
    /\ final_video_clip = <<>>
    /\ tempdir_files = {}
    /\ video_path = None
    /\ outcome = "none"
    /\ error_message = "none"
    /\ backend_calls = <<>>
    /\ shown = FALSE

func_vars == <<audio_clip, total_audio_duration, num_images, single_image_duration,
               i, clips, final_video_clip, tempdir_files, video_path, outcome,
               error_message, backend_calls>>

\* ---------------------------------------------------------------- uploads
\* The user adds one image to the image uploader.
UploadImage ==
    /\ pc = "idle"
    /\ Len(uploaded_images) < MaxImages
    /\ \E nm \in ImageNames :
         uploaded_images' = Append(uploaded_images,
                                   [name |-> nm, data |-> Len(uploaded_images) + 1])
    /\ UNCHANGED <<pc, uploaded_audio, tmpdir, image_paths, audio_path, shown>>
    /\ UNCHANGED param_vars
    /\ UNCHANGED func_vars

\* The user picks the audio file; its bytes are identified by their duration.
UploadAudio ==
    /\ pc = "idle"
    /\ \E d \in 1..MaxAudioDuration :
         uploaded_audio' = <<[name |-> AudioName, duration |-> d]>>
    /\ UNCHANGED <<pc, uploaded_images, tmpdir, image_paths, audio_path, shown>>
    /\ UNCHANGED param_vars
    /\ UNCHANGED func_vars

\* ------------------------------------------------------ the button handler
\* if st.button(...): images or audio missing -> st.error
ClickInvalid ==
    /\ pc = "idle"
    /\ ~(uploaded_images # <<>> /\ uploaded_audio # <<>>)
    /\ pc' = "done"
    /\ outcome' = "ValidationError"
    /\ UNCHANGED handler_vars
    /\ UNCHANGED param_vars
    /\ UNCHANGED <<audio_clip, total_audio_duration, num_images, single_image_duration,
                   i, clips, final_video_clip, tempdir_files, video_path,
                   error_message, backend_calls>>

\* if st.button(...): the temporary directory is created, every upload is
\* written into it, the paths are sorted and create_video_from_images is
\* entered.  The handler passes no effect durations (the defaults apply); the
\* other values are the function's remaining parameter domain.
ClickButton ==
    /\ pc = "idle"
    /\ uploaded_images # <<>> /\ uploaded_audio # <<>>
    /\ LET staged == StageImages(<<>>, <<>>, uploaded_images)
           audio == uploaded_audio[1]
       IN  /\ tmpdir' = [state |-> "live",
                         files |-> WriteFile(staged.files, audio.name,
                                             [kind |-> "audio", data |-> audio.duration])]
           /\ audio_path' = audio.name
           /\ image_paths' = Sort(staged.paths)
    /\ \E t \in 0..MaxEffect, fi \in 0..MaxEffect, fo \in 0..MaxEffect :
         /\ transition_duration' = t
         /\ fade_in_duration' = fi
         /\ fade_out_duration' = fo
    /\ pc' = "open_audio"
    /\ UNCHANGED <<uploaded_images, uploaded_audio, shown>>
    /\ UNCHANGED func_vars

\* if video_path: st.video + st.download_button; then the `with` block ends
\* and the temporary directory is removed.
Present ==
    /\ pc = "returned"
    /\ shown' = (video_path # None)
    /\ tmpdir' = [state |-> "released", files |-> <<>>]
    /\ pc' = "done"
    /\ UNCHANGED <<uploaded_images, uploaded_audio, image_paths, audio_path>>
    /\ UNCHANGED param_vars
    /\ UNCHANGED func_vars

\* ------------------------------------------- create_video_from_images
\* The state the function leaves when one of its statements raises: the
\* except clause reports the exception and returns None.
Raise(e, calls) ==
    /\ pc' = OnException(e).pc
    /\ outcome' = OnException(e).outcome
    /\ error_message' = OnException(e).error_message
    /\ video_path' = None
    /\ backend_calls' = calls

\* audio_clip = mp.AudioFileClip(audio_path); total_audio_duration = audio_clip.duration
OpenAudio ==
    /\ pc = "open_audio"
    /\ \/ /\ audio_clip' = <<[duration |-> tmpdir.files[audio_path].data,
                              closed |-> FALSE]>>
          /\ total_audio_duration' = tmpdir.files[audio_path].data
          /\ backend_calls' = Append(backend_calls, "AudioFileClip")
          /\ pc' = "plan"
          /\ UNCHANGED <<video_path, outcome, error_message>>
       \/ /\ Raise("BackendError", Append(backend_calls, "AudioFileClip"))
          /\ UNCHANGED <<audio_clip, total_audio_duration>>
    /\ UNCHANGED <<num_images, single_image_duration, i, clips, final_video_clip,
                   tempdir_files>>
    /\ UNCHANGED handler_vars
    /\ UNCHANGED param_vars

\* num_images = len(image_paths) ... the two checks ... single_image_duration
Plan ==
    /\ pc = "plan"
    /\ num_images' = Len(image_paths)
    /\ LET n == Len(image_paths)
           o == PlanOutcome(n, total_audio_duration, transition_duration,
                            fade_in_duration, fade_out_duration)
       IN  /\ single_image_duration' =
                 IF o = "AudioTooShort" THEN single_image_duration
                 ELSE SingleImageDuration(n, total_audio_duration, transition_duration,
                                          fade_in_duration, fade_out_duration)
           /\ outcome' = IF o = "ok" THEN outcome ELSE o
           /\ pc' = IF ReturnsEarly(o) THEN "returned" ELSE "loop"
    /\ i' = 0
    /\ clips' = <<>>
    /\ UNCHANGED <<audio_clip, total_audio_duration, final_video_clip, tempdir_files,
                   video_path, error_message, backend_calls>>
    /\ UNCHANGED handler_vars
    /\ UNCHANGED param_vars

\* One iteration of `for i, path in enumerate(image_paths)`: the image clip,
\* and for every image but the last the next image's clip and the composite.
\* Each backend call may raise.
LoopIteration ==
    /\ pc = "loop"
    /\ i < Len(image_paths)
    /\ LET path == image_paths[i + 1]
           image_clip == ImageClip(tmpdir.files, path, "exposure", Zero,
                                   single_image_duration)
           calls1 == Append(backend_calls, "ImageClip")
           calls2 == Append(calls1, "ImageClip")
           calls3 == Append(calls2, "CompositeVideoClip")
       IN  \/ /\ Raise("BackendError", calls1)
              /\ UNCHANGED <<i, clips>>
           \/ /\ HasNext(i, num_images)
              /\ i + 2 > Len(image_paths)       \* image_paths[i+1] does not exist
              /\ Raise("IndexError", calls1)
              /\ UNCHANGED <<i, clips>>
           \/ /\ HasNext(i, num_images)
              /\ i + 2 <= Len(image_paths)
              /\ \/ /\ Raise("BackendError", calls2)
                    /\ UNCHANGED <<i, clips>>
                 \/ /\ Raise("BackendError", calls3)
                    /\ UNCHANGED <<i, clips>>
                 \/ /\ clips' = Append(clips,
                                  DissolveClip(image_clip, image_paths[i + 2],
                                               tmpdir.files, single_image_duration,
                                               transition_duration))
                    /\ backend_calls' = calls3
                    /\ i' = i + 1
                    /\ UNCHANGED <<pc, outcome, error_message, video_path>>
           \/ /\ ~HasNext(i, num_images)
              /\ clips' = Append(clips, HoldClip(image_clip))
              /\ backend_calls' = calls1
              /\ i' = i + 1
              /\ UNCHANGED <<pc, outcome, error_message, video_path>>
    /\ UNCHANGED <<audio_clip, total_audio_duration, num_images, single_image_duration,
                   final_video_clip, tempdir_files>>
    /\ UNCHANGED handler_vars
    /\ UNCHANGED param_vars

\* concatenate_videoclips, fadein, fadeout, set_audio
Compose ==
    /\ pc = "loop"
    /\ i = Len(image_paths)
    /\ \/ /\ final_video_clip' =
                <<SetAudio(FadeOut(FadeIn(ConcatenateVideoclips(clips),
                                          fade_in_duration),
                                   fade_out_duration),
                           audio_clip)>>
          /\ backend_calls' = backend_calls \o
                <<"concatenate_videoclips", "fadein", "fadeout", "set_audio">>
          /\ pc' = "write"
          /\ UNCHANGED <<video_path, outcome, error_message>>
       \/ /\ Raise("BackendError", Append(backend_calls, "concatenate_videoclips"))
          /\ UNCHANGED final_video_clip
    /\ UNCHANGED <<audio_clip, total_audio_duration, num_images, single_image_duration,
                   i, clips, tempdir_files>>
    /\ UNCHANGED handler_vars
    /\ UNCHANGED param_vars

\* output_path = <gettempdir>/output_<uuid4>.mp4; write_videofile; return it.
\* A failed encoding may leave a partial file behind.
WriteVideofile ==
    /\ pc = "write"
    /\ \/ /\ tempdir_files' = tempdir_files \cup
                {[name |-> OutputName, complete |-> TRUE]}
          /\ backend_calls' = Append(backend_calls, "write_videofile")
          /\ outcome' = "Success"
          /\ video_path' = OutputName
          /\ pc' = "returned"
          /\ UNCHANGED error_message
       \/ /\ Raise("BackendError", Append(backend_calls, "write_videofile"))
          /\ \E partial \in BOOLEAN :
               tempdir_files' =
                   IF partial
                   THEN tempdir_files \cup
                        {[name |-> OutputName, complete |-> FALSE]}
                   ELSE tempdir_files
    /\ UNCHANGED <<audio_clip, total_audio_duration, num_images, single_image_duration,
                   i, clips, final_video_clip>>
    /\ UNCHANGED handler_vars
    /\ UNCHANGED param_vars

Next ==
    \/ UploadImage
    \/ UploadAudio
    \/ ClickInvalid
    \/ ClickButton
    \/ OpenAudio
    \/ Plan
    \/ LoopIteration
    \/ Compose
    \/ WriteVideofile
    \/ Present

Spec == Init /\ [][Next]_vars

\* ================================================================ claims
EffectiveDuration ==
    EffectiveVideoDuration(total_audio_duration, fade_in_duration, fade_out_duration)

RECURSIVE AllLayers(_)
AllLayers(cs) == IF cs = <<>> THEN <<>> ELSE Head(cs).layers \o AllLayers(Tail(cs))

IsExposure(l) == l.kind = "exposure"
IsTransition(l) == l.kind = "transition"
Exposures(ls) == SelectSeq(ls, IsExposure)
Transitions(ls) == SelectSeq(ls, IsTransition)
Durations(ls) == [k \in 1..Len(ls) |-> ls[k].duration]
Max(a, b) == IF a > b THEN a ELSE b

\* The loop has run to its end: the clip list is complete.
ClipsBuilt ==
    /\ pc \in {"loop", "write", "returned", "done"}
    /\ num_images >= 1
    /\ Len(clips) = num_images

\* The planning step has run for this request.
Planned == audio_clip # <<>> /\ num_images >= 1

\* C1: once the clip list is built, the exposure durations plus the
\* transition durations sum to audio - fade_in - fade_out, and so does the
\* length of the concatenated clip.
C1_DurationConservation ==
    ClipsBuilt =>
        /\ RAdd(RSum(Durations(Exposures(AllLayers(clips)))),
                RSum(Durations(Transitions(AllLayers(clips)))))
             = RInt(EffectiveDuration)
        /\ \A k \in 1..Len(Exposures(AllLayers(clips))) :
             Exposures(AllLayers(clips))[k].duration = single_image_duration
        /\ \A k \in 1..Len(Transitions(AllLayers(clips))) :
             Transitions(AllLayers(clips))[k].duration = RInt(transition_duration)
        /\ final_video_clip # <<>> =>
             final_video_clip[1].duration = RInt(EffectiveDuration)

C1_Witness ==
    /\ pc = "write"
    /\ num_images = 3
    /\ transition_duration > 0
    /\ single_image_duration.den = 3

\* C2 (as claimed): in every successful run the rendered clip is as long as
\* the audio track.
C2_RenderedDurationEqualsAudio ==
    outcome = "Success" =>
        final_video_clip[1].duration = RInt(total_audio_duration)

\* C3: once the audio is open with duration <= fade_in + fade_out, the run
\* is reported as AudioTooShort whatever the image count, returns None,
\* writes no artifact and renders nothing.
C3_AudioTooShort ==
    (audio_clip # <<>> /\ total_audio_duration <= fade_in_duration + fade_out_duration) =>
        /\ pc \in {"plan", "returned", "done"}
        /\ pc # "plan" =>
             /\ outcome = "AudioTooShort"
             /\ video_path = None
             /\ tempdir_files = {}
             /\ ~shown

C3_Witness ==
    /\ pc = "done"
    /\ outcome = "AudioTooShort"
    /\ total_audio_duration = fade_in_duration + fade_out_duration
    /\ num_images >= 2

\* The planner's outcome and exposure time for n images with the audio and
\* effect durations of the current request.
OutcomeFor(n) ==
    PlanOutcome(n, total_audio_duration, transition_duration,
                fade_in_duration, fade_out_duration)
ExposureFor(n) ==
    SingleImageDuration(n, total_audio_duration, transition_duration,
                        fade_in_duration, fade_out_duration)

\* K is the last image count that succeeds: every count up to K succeeds
\* and every count beyond it fails with TooManyImages.
IsThreshold(K) ==
    \A n \in 1..PlannerRange :
        /\ n <= K => OutcomeFor(n) = "ok"
        /\ n > K => OutcomeFor(n) = "TooManyImages"

\* C4 (as claimed): for every audio duration and every non-negative effect
\* configuration there is a threshold image count.
C4_ThresholdAlways ==
    Planned => \E K \in 0..PlannerRange : IsThreshold(K)

\* C4 (amended): when audio > fade_in + fade_out and the transition is
\* positive there is a threshold with failing counts beyond it, and the
\* request's own outcome lies on its side of it; with a zero transition every
\* count succeeds; the exposure time strictly decreases with the image count
\* whenever the effective duration is positive.
C4_MonotonicBoundary ==
    (Planned /\ EffectiveDuration > 0) =>
        /\ transition_duration > 0 =>
             \E K \in 1..(PlannerRange - 1) :
                 /\ IsThreshold(K)
                 /\ (num_images > K) <=> (outcome = "TooManyImages")
        /\ transition_duration = 0 =>
             /\ \A n \in 1..PlannerRange : OutcomeFor(n) = "ok"
             /\ outcome # "TooManyImages"
        /\ \A n \in 1..(PlannerRange - 1) : RLt(ExposureFor(n + 1), ExposureFor(n))
        /\ single_image_duration = ExposureFor(num_images)

C4_Witness ==
    /\ pc = "done"
    /\ outcome = "TooManyImages"
    /\ num_images = 3
    /\ OutcomeFor(2) = "ok"

\* C5: a built clip list holds one exposure per image and one transition
\* per consecutive pair, each showing the image of its position; a single
\* image is one exposure of length audio - fade_in - fade_out; no image
\* beyond the last is ever asked for.
C5_SegmentCount ==
    /\ error_message # "IndexError"
    /\ ClipsBuilt =>
         LET E == Exposures(AllLayers(clips))
             T == Transitions(AllLayers(clips))
         IN  /\ Len(E) = num_images
             /\ Len(T) = Max(0, num_images - 1)
             /\ \A k \in 1..Len(E) : E[k].path = image_paths[k]
             /\ \A k \in 1..Len(T) : T[k].path = image_paths[k + 1]
             /\ num_images = 1 =>
                  /\ clips[1].layers = <<E[1]>>
                  /\ E[1].duration = RInt(EffectiveDuration)

C5_Witness ==
    /\ ClipsBuilt
    /\ num_images = 3
    /\ pc = "write"

\* C6: a failure of any backend call is caught: the run is reported as
\* RenderFailed, returns None, is never shown, the script does not crash, and
\* no backend call follows the failure.
C6_FailureCaught ==
    /\ [](error_message # "none" =>
            /\ pc \in {"returned", "done"}
            /\ outcome = "RenderFailed"
            /\ video_path = None
            /\ ~shown)
    /\ [][error_message # "none" =>
            /\ backend_calls' = backend_calls
            /\ error_message' = error_message]_vars

C6_Witness ==
    /\ pc = "done"
    /\ error_message = "BackendError"
    /\ backend_calls[Len(backend_calls)] = "write_videofile"
    /\ tempdir_files # {}

\* C7 (as claimed): a run reported as AudioTooShort or TooManyImages has made
\* no backend call.
C7_NoBackendCall ==
    outcome \in {"AudioTooShort", "TooManyImages"} => backend_calls = <<>>

\* C7 (amended): a run reported as AudioTooShort or TooManyImages has made
\* no backend call other than the one AudioFileClip that reads the duration.
C7_OnlyAudioOpened ==
    outcome \in {"AudioTooShort", "TooManyImages"} =>
        /\ backend_calls = <<"AudioFileClip">>
        /\ pc \in {"returned", "done"}
        /\ clips = <<>>
        /\ tempdir_files = {}

C7_Witness ==
    /\ pc = "done"
    /\ outcome = "TooManyImages"

\* C8 (as claimed): when the request is over, the temporary storage of the
\* staged inputs and of the output artifact is gone and the audio clip is
\* closed.
C8_AllReleased ==
    pc = "done" =>
        /\ tmpdir.state # "live"
        /\ tempdir_files = {}
        /\ \A k \in 1..Len(audio_clip) : audio_clip[k].closed

\* C9: in the concatenated clip exposure 1 starts at 0, each transition
\* starts single_image_duration after its exposure starts, the next exposure
\* starts no later than the transition ends, every segment starts where the
\* previous one ends, and the last exposure ends at the effective duration.
C9_SegmentPositions ==
    final_video_clip # <<>> =>
        LET segs == final_video_clip[1].segments
            E == Exposures(segs)
            T == Transitions(segs)
            End(x) == RAdd(x.start, x.duration)
        IN  /\ E[1].start = Zero
            /\ \A k \in 1..Len(T) :
                 /\ T[k].start = RAdd(E[k].start, single_image_duration)
                 /\ RLe(E[k + 1].start, End(T[k]))
            /\ \A k \in 1..(Len(segs) - 1) : segs[k + 1].start = End(segs[k])
            /\ End(E[Len(E)]) = RInt(EffectiveDuration)
            /\ End(segs[Len(segs)]) = final_video_clip[1].duration

C9_Witness ==
    /\ final_video_clip # <<>>
    /\ num_images = 3
    /\ transition_duration = 2
    /\ single_image_duration.den > 1

\* The images create_video_from_images receives, read back through the paths.
StagedImages ==
    [k \in 1..Len(image_paths) |->
        [name |-> image_paths[k], data |-> tmpdir.files[image_paths[k]].data]]

\* C10 (as claimed): the images handed over are the uploads in ascending
\* file-name order, each exactly once and with its own bytes.
C10_StagedAreUploadsSorted ==
    tmpdir.state = "live" =>
        /\ Len(StagedImages) = Len(uploaded_images)
        /\ \A k \in 1..Len(uploaded_images) :
             \E j \in 1..Len(StagedImages) : StagedImages[j] = uploaded_images[k]
        /\ \A j, k \in 1..Len(StagedImages) :
             j < k => StagedImages[j].name <= StagedImages[k].name

====
